---------------------------- MODULE Spec2Model ----------------------------
(***************************************************************************)
(* A model of the two candidate-list scrapers                              *)
(*     src/fetch_saninsen2025_asahi.py    ("asahi")                        *)
(*     src/fetch_saninsen2025_senkyo.py   ("senkyo")                       *)
(*                                                                         *)
(* Python strings are sequences of characters.  A character is written as  *)
(* itself when it is printable ASCII and as "uXXXX" (its code point)       *)
(* otherwise, so that two strings are equal in the model exactly when they *)
(* are equal in Python.  The comments give the original text.              *)
(***************************************************************************)
EXTENDS Naturals, Sequences, FiniteSets

(***************************************************************************)
(* Characters and the str / re primitives the scripts use.                 *)
(***************************************************************************)

\* The characters for which str.isspace() holds and which \s matches.
WhitespaceChars == {" ", "u3000"}

\* The characters matched by \d in a str pattern (Unicode category Nd):
\* ASCII digits and the full-width digits.
ReDigitChars ==
    {"0", "1", "2", "3", "4", "5", "6", "7", "8", "9",
     "uFF10", "uFF11", "uFF12", "uFF13", "uFF14",
     "uFF15", "uFF16", "uFF17", "uFF18", "uFF19"}

\* The characters for which str.isdigit() holds: category Nd and the other
\* characters of Numeric_Type=Digit, such as the circled digits.
IsDigitChars ==
    ReDigitChars \cup {"u2460", "u2461", "u2462", "u2463", "u2464",
                       "u2465", "u2466", "u2467", "u2468"}

\* str.isdigit(): the string is not empty and every character is a digit.
isdigit(s) == Len(s) > 0 /\ \A i \in 1..Len(s) : s[i] \in IsDigitChars

\* s[i:] of Python (i counted from 1 here).
TailFrom(s, i) == SubSeq(s, i, Len(s))

\* Whether prefix stands in s at position i.
StartsWithAt(s, i, prefix) ==
    /\ i >= 1
    /\ i + Len(prefix) - 1 <= Len(s)
    /\ SubSeq(s, i, i + Len(prefix) - 1) = prefix

\* s.startswith(prefix)
startswith(s, prefix) == StartsWithAt(s, 1, prefix)

\* The places where sub occurs in s.
Occurrences(s, sub) == {i \in 1..(Len(s) + 1) : StartsWithAt(s, i, sub)}

\* sub in s
contains(s, sub) == Occurrences(s, sub) # {}

Minimum(S) == CHOOSE x \in S : \A y \in S : x <= y

Maximum(S) == CHOOSE x \in S : \A y \in S : x >= y

\* s.lstrip(chars): the leading characters that are in chars are removed.
lstrip(s, chars) ==
    LET keep == {i \in 1..Len(s) : s[i] \notin chars}
    IN  IF keep = {} THEN <<>> ELSE TailFrom(s, Minimum(keep))

\* s.rstrip(chars)
rstrip(s, chars) ==
    LET keep == {i \in 1..Len(s) : s[i] \notin chars}
    IN  IF keep = {} THEN <<>> ELSE SubSeq(s, 1, Maximum(keep))

\* s.strip(): whitespace removed at both ends.
strip(s) == rstrip(lstrip(s, WhitespaceChars), WhitespaceChars)

\* re.split(r"\s+", s): the pieces between the runs of whitespace; a run at
\* the start or the end of s leaves an empty piece there, and "" gives [""].
RECURSIVE re_split_ws_from(_, _)
re_split_ws_from(s, i) ==
    LET spaces == {j \in i..Len(s) : s[j] \in WhitespaceChars}
    IN  IF spaces = {}
        THEN <<TailFrom(s, i)>>
        ELSE LET j    == Minimum(spaces)
                 rest == {k \in j..Len(s) : s[k] \notin WhitespaceChars}
                 k    == IF rest = {} THEN Len(s) + 1 ELSE Minimum(rest)
             IN  <<SubSeq(s, i, j - 1)>> \o re_split_ws_from(s, k)

re_split_ws(s) == re_split_ws_from(s, 1)

\* s.split(), on whitespace: as re.split, without the empty pieces.
split_ws(s) == SelectSeq(re_split_ws(s), LAMBDA p : p # <<>>)

\* s.split(sep): the pieces between the occurrences of sep, left to right.
RECURSIVE split_from(_, _, _)
split_from(s, sep, i) ==
    LET occ == {j \in Occurrences(s, sep) : j >= i /\ j <= Len(s)}
    IN  IF occ = {}
        THEN <<TailFrom(s, i)>>
        ELSE LET j == Minimum(occ)
             IN  <<SubSeq(s, i, j - 1)>> \o split_from(s, sep, j + Len(sep))

split(s, sep) == split_from(s, sep, 1)

\* "".join(parts)
RECURSIVE join(_)
join(parts) ==
    IF parts = <<>> THEN <<>> ELSE Head(parts) \o join(Tail(parts))

\* Python's order on strings: by code point, character by character.  The
\* characters that occur in the strings the scripts sort, in code point order.
CodePointOrder ==
    <<"-", ".", "/", "0", "1", "2", "3", "4", "5", "6", "7", "8", "9", ":",
      "A", "B", "C", "D", "E", "F", "G", "H", "I", "J", "K", "L", "M",
      "N", "O", "P", "Q", "R", "S", "T", "U", "V", "W", "X", "Y", "Z", "_",
      "a", "b", "c", "d", "e", "f", "g", "h", "i", "j", "k", "l", "m",
      "n", "o", "p", "q", "r", "s", "t", "u", "v", "w", "x", "y", "z">>

ord(c) == CHOOSE i \in 1..Len(CodePointOrder) : CodePointOrder[i] = c

RECURSIVE str_less(_, _)
str_less(a, b) ==
    IF b = <<>> THEN FALSE
    ELSE IF a = <<>> THEN TRUE
    ELSE IF Head(a) = Head(b) THEN str_less(Tail(a), Tail(b))
    ELSE ord(Head(a)) < ord(Head(b))

\* sorted(S) for a set S of strings.
RECURSIVE sorted(_)
sorted(S) ==
    IF S = {} THEN <<>>
    ELSE LET m == CHOOSE x \in S : \A y \in S \ {x} : str_less(x, y)
         IN  <<m>> \o sorted(S \ {m})

\* The elements of a sequence.
Range(q) == {q[i] : i \in 1..Len(q)}

\* The concatenation of a sequence of sequences (list.extend, page by page).
RECURSIVE Flatten(_)
Flatten(qs) ==
    IF qs = <<>> THEN <<>> ELSE Head(qs) \o Flatten(Tail(qs))

(***************************************************************************)
(* unify_party: the alias tables of the two scripts.                       *)
(***************************************************************************)

\* aliases of the asahi script: the pairs (key, value) of the dict.
aliases_asahi ==
    { <<<<"u81EA">>, <<"u81EA", "u6C11">>>>,   \* 自 -> 自民
      <<<<"u81EA", "u6C11", "u515A">>, <<"u81EA", "u6C11">>>>,   \* 自民党 -> 自民
      <<<<"u7ACB">>, <<"u7ACB", "u61B2">>>>,   \* 立 -> 立憲
      <<<<"u7ACB", "u61B2", "u6C11", "u4E3B", "u515A">>, <<"u7ACB", "u61B2">>>>,   \* 立憲民主党 -> 立憲
      <<<<"u7DAD">>, <<"u7DAD", "u65B0">>>>,   \* 維 -> 維新
      <<<<"u65E5", "u672C", "u7DAD", "u65B0", "u306E", "u4F1A">>, <<"u7DAD", "u65B0">>>>,   \* 日本維新の会 -> 維新
      <<<<"u5171">>, <<"u5171", "u7523">>>>,   \* 共 -> 共産
      <<<<"u5171", "u7523", "u515A">>, <<"u5171", "u7523">>>>,   \* 共産党 -> 共産
      <<<<"u308C">>, <<"u308C", "u3044", "u308F">>>>,   \* れ -> れいわ
      <<<<"u308C", "u3044", "u308F", "u65B0", "u9078", "u7D44">>, <<"u308C", "u3044", "u308F">>>>,   \* れいわ新選組 -> れいわ
      <<<<"u4FDD">>, <<"u65E5", "u4FDD">>>>,   \* 保 -> 日保
      <<<<"u65E5", "u672C", "u4FDD", "u5B88", "u515A">>, <<"u65E5", "u4FDD">>>>,   \* 日本保守党 -> 日保
      <<<<"u8AF8">>, <<"u8AF8", "u6D3E">>>>,   \* 諸 -> 諸派
      <<<<"u7121", "u6240", "u5C5E", "u9023", "u5408">>, <<"u8AF8", "u6D3E">>>>,   \* 無所属連合 -> 諸派
      <<<<"u305D", "u306E", "u4ED6">>, <<"u8AF8", "u6D3E">>>>,   \* その他 -> 諸派
      <<<<"u7121">>, <<"u7121", "u6240", "u5C5E">>>>,   \* 無 -> 無所属
      <<<<"u516C">>, <<"u516C", "u660E">>>>,   \* 公 -> 公明
      <<<<"u516C", "u660E", "u515A">>, <<"u516C", "u660E">>>>,   \* 公明党 -> 公明
      <<<<"u793E">>, <<"u793E", "u6C11">>>>,   \* 社 -> 社民
      <<<<"u793E", "u6C11", "u515A">>, <<"u793E", "u6C11">>>>,   \* 社民党 -> 社民
      <<<<"u56FD", "u6C11", "u6C11", "u4E3B", "u515A">>, <<"u56FD", "u6C11">>>>,   \* 国民民主党 -> 国民
      <<<<"u53C2", "u653F", "u515A">>, <<"u53C2", "u653F">>>>,   \* 参政党 -> 参政
      <<<<"u307F", "u3093", "u306A", "u3067", "u3064", "u304F", "u308B", "u515A">>, <<"u307F", "u3093", "u3064", "u304F">>>>,   \* みんなでつくる党 -> みんつく
      <<<<"N", "H", "K", "u515A">>, <<"N", "u56FD">>>>,   \* NHK党 -> N国
      <<<<"u518D", "u751F", "u306E", "u9053">>, <<"u518D", "u9053">>>>,   \* 再生の道 -> 再道
      <<<<"u30C1", "u30FC", "u30E0", "u307F", "u3089", "u3044">>, <<"u307F", "u3089", "u3044">>>>,   \* チームみらい -> みらい
      <<<<"u65E5", "u672C", "u6539", "u9769", "u515A">>, <<"u65E5", "u6539">>>> }   \* 日本改革党 -> 日改

\* aliases of the senkyo script.
aliases_senkyo ==
    { <<<<"u81EA", "u6C11", "u515A">>, <<"u81EA", "u6C11">>>>,   \* 自民党 -> 自民
      <<<<"u7ACB", "u61B2", "u6C11", "u4E3B", "u515A">>, <<"u7ACB", "u61B2">>>>,   \* 立憲民主党 -> 立憲
      <<<<"u65E5", "u672C", "u7DAD", "u65B0", "u306E", "u4F1A">>, <<"u7DAD", "u65B0">>>>,   \* 日本維新の会 -> 維新
      <<<<"u65E5", "u672C", "u5171", "u7523", "u515A">>, <<"u5171", "u7523">>>>,   \* 日本共産党 -> 共産
      <<<<"u308C", "u3044", "u308F", "u65B0", "u9078", "u7D44">>, <<"u308C", "u3044", "u308F">>>>,   \* れいわ新選組 -> れいわ
      <<<<"u65E5", "u672C", "u4FDD", "u5B88", "u515A">>, <<"u65E5", "u4FDD">>>>,   \* 日本保守党 -> 日保
      <<<<"u7121", "u6240", "u5C5E", "u9023", "u5408">>, <<"u8AF8", "u6D3E">>>>,   \* 無所属連合 -> 諸派
      <<<<"u305D", "u306E", "u4ED6">>, <<"u8AF8", "u6D3E">>>>,   \* その他 -> 諸派
      <<<<"u7121", "u6240", "u5C5E">>, <<"u7121", "u6240", "u5C5E">>>>,   \* 無所属 -> 無所属
      <<<<"u516C", "u660E", "u515A">>, <<"u516C", "u660E">>>>,   \* 公明党 -> 公明
      <<<<"u793E", "u6C11", "u515A">>, <<"u793E", "u6C11">>>>,   \* 社民党 -> 社民
      <<<<"u56FD", "u6C11", "u6C11", "u4E3B", "u515A">>, <<"u56FD", "u6C11">>>>,   \* 国民民主党 -> 国民
      <<<<"u53C2", "u653F", "u515A">>, <<"u53C2", "u653F">>>>,   \* 参政党 -> 参政
      <<<<"u307F", "u3093", "u306A", "u3067", "u3064", "u304F", "u308B", "u515A">>, <<"u307F", "u3093", "u3064", "u304F">>>>,   \* みんなでつくる党 -> みんつく
      <<<<"N", "H", "K", "u515A">>, <<"N", "u56FD">>>>,   \* NHK党 -> N国
      <<<<"u518D", "u751F", "u306E", "u9053">>, <<"u518D", "u9053">>>>,   \* 再生の道 -> 再道
      <<<<"u30C1", "u30FC", "u30E0", "u307F", "u3089", "u3044">>, <<"u307F", "u3089", "u3044">>>>,   \* チームみらい -> みらい
      <<<<"u65E5", "u672C", "u6539", "u9769", "u515A">>, <<"u65E5", "u6539">>>> }   \* 日本改革党 -> 日改

\* aliases.get(name, ""): a name that is no key is lost.
dict_get_or_empty(aliases, name) ==
    IF \E p \in aliases : p[1] = name
    THEN (CHOOSE p \in aliases : p[1] = name)[2]
    ELSE <<>>

\* aliases.get(name, name)
dict_get(aliases, name) ==
    IF \E p \in aliases : p[1] = name
    THEN (CHOOSE p \in aliases : p[1] = name)[2]
    ELSE name

unify_party_asahi(name) == dict_get(aliases_asahi, name)

unify_party_senkyo(name) == dict_get(aliases_senkyo, name)

(***************************************************************************)
(* HTML documents.  BeautifulSoup(html) is modelled by what the scripts    *)
(* read of it; an optional element is a sequence of length 0 or 1.         *)
(*   nonempty    whether the string html is not ""                         *)
(*   hrefs       the href of every <a href=...>, in document order         *)
(*   h1          get_text(strip=True) of ".PageTitle .Title h1", or of the *)
(*               first h1                                                  *)
(*   containers  the div.snkKohoInfoBox[data-type=yoteisha] elements: h3   *)
(*               is get_text(strip=True) of ".snkTitle h3", lis the        *)
(*               get_text(" ", strip=True) of each li inside               *)
(*   h2          whether an h2 holds the marker string                     *)
(*   next        get_text(" ", strip=True) of the li and p elements after  *)
(*               that h2, in document order                                *)
(*   meta, title, sections   what the senkyo script reads (see below)      *)
(***************************************************************************)

\* BeautifulSoup("") and every document without the elements above.
BlankDoc ==
    [nonempty |-> TRUE, hrefs |-> <<>>, h1 |-> <<>>, containers |-> <<>>,
     h2 |-> FALSE, next |-> <<>>, meta |-> <<>>, title |-> <<>>,
     sections |-> <<>>]

\* The string "".
EmptyHtml == [BlankDoc EXCEPT !.nonempty = FALSE]

Saninsen  == <<"u53C2", "u9662", "u9078">>                    \* 参院選
Ichiran    == <<"u5019", "u88DC", "u8005", "u4E00", "u89A7">>  \* 候補者一覧
Senkyoku   == <<"u9078", "u6319", "u533A">>                    \* 選挙区
Hirei      == <<"u6BD4", "u4F8B">>                             \* 比例
Sai        == <<"u6B73">>                                      \* 歳
Footnote   == <<"uFF0A">>                                      \* ＊
Kaobure    == <<"u9854", "u3076", "u308C", "u306E", "u898B", "u65B9">>
                                                               \* 顔ぶれの見方

\* The characters of lstrip("●*◇・").
BulletChars == {"u25CF", "*", "u25C7", "u30FB"}

\* The characters 現 新 前 元 of the class [^\d現新前元].
StatusChars == {"u73FE", "u65B0", "u524D", "u5143"}

\* limit=200 of find_all_next.
FindAllNextLimit == 200

\* re.search(r"参院選\s*(.+?)候補者一覧", s): group 1 of the match, as an
\* optional.  The match starts at the leftmost possible place; there \s*
\* takes as many characters as still let the rest match, and (.+?) as few.
TitleSearch(s) ==
    LET Ok(i, k, g) ==
            /\ \A j \in (i + 3)..(i + 2 + k) :
                   j <= Len(s) /\ s[j] \in WhitespaceChars
            /\ StartsWithAt(s, i + 3 + k + g, Ichiran)
        starts == {i \in Occurrences(s, Saninsen) :
                      \E k \in 0..Len(s), g \in 1..Len(s) : Ok(i, k, g)}
    IN  IF starts = {} THEN <<>>
        ELSE LET i == Minimum(starts)
                 k == Maximum({x \in 0..Len(s) :
                                  \E g \in 1..Len(s) : Ok(i, x, g)})
                 g == Minimum({x \in 1..Len(s) : Ok(i, k, x)})
             IN  <<SubSeq(s, i + 3 + k, i + 2 + k + g)>>

\* The district of the page: from its h1 when that matches, else the
\* caller's default.
ResolveDistrict(soup, default_district) ==
    IF soup.h1 = <<>> THEN default_district
    ELSE LET m == TitleSearch(soup.h1[1])
         IN  IF m = <<>> THEN default_district
             ELSE strip(split(m[1], Senkyoku)[1])

\* The li elements of the containers, each with its container's party.
RECURSIVE ContainerTags(_)
ContainerTags(containers) ==
    IF containers = <<>> THEN <<>>
    ELSE LET c               == Head(containers)
             container_party == IF c.h3 # <<>> THEN c.h3[1] ELSE <<>>
         IN  [i \in 1..Len(c.lis) |->
                 [text |-> c.lis[i], container_party |-> container_party]]
             \o ContainerTags(Tail(containers))

\* Whether the old structure's scan stops at an element with this text.
IsTerminator(text) ==
    \/ text = <<>>
    \/ startswith(text, Footnote)
    \/ contains(text, Kaobure)

\* The elements after the marker heading, up to the first terminator.
RECURSIVE TakeUntilTerminator(_)
TakeUntilTerminator(texts) ==
    IF texts = <<>> \/ IsTerminator(Head(texts)) THEN <<>>
    ELSE <<[text |-> Head(texts), container_party |-> <<>>]>>
         \o TakeUntilTerminator(Tail(texts))

\* The chain in the other order: the old structure whenever the page has the
\* marker heading.
CollectTagsOldFirst(soup) ==
    IF soup.h2
    THEN [strategy |-> "old", tags |-> TakeUntilTerminator(soup.next)]
    ELSE IF soup.containers # <<>>
    THEN [strategy |-> "new", tags |-> ContainerTags(soup.containers)]
    ELSE [strategy |-> "none", tags |-> <<>>]

\* The chain of strategies: the new structure when the page has a container,
\* else the old one; "none" is the early return [] without a marker heading.
CollectTags(soup) ==
    IF soup.containers # <<>>
    THEN [strategy |-> "new", tags |-> ContainerTags(soup.containers)]
    ELSE IF ~soup.h2
    THEN [strategy |-> "none", tags |-> <<>>]
    ELSE [strategy |-> "old",
          tags |-> TakeUntilTerminator(
                       SubSeq(soup.next, 1,
                              IF Len(soup.next) < FindAllNextLimit
                              THEN Len(soup.next) ELSE FindAllNextLimit))]

\* next((i for i, p in enumerate(parts) if p.isdigit()), -1), counted from 1
\* (0: no such token).
AgeIndex(parts) ==
    LET digits == {i \in 1..Len(parts) : isdigit(parts[i])}
    IN  IF digits = {} THEN 0 ELSE Minimum(digits)

\* The test one too strict: an entry whose party token is its last token is
\* skipped as well.
EntrySkippedStrict(age_idx, n) == age_idx = 0 \/ age_idx + 1 >= n

\* age_idx == -1 or age_idx + 1 >= len(parts), with age_idx counted from 1.
EntrySkipped(age_idx, n) == age_idx = 0 \/ age_idx >= n

\* The pattern without the status characters, ([^\d]+): the run ends at the
\* first digit only.
PartyCodeUntilDigit(party_status) ==
    LET stops == {i \in 1..Len(party_status) :
                     party_status[i] \in ReDigitChars}
        run   == IF stops = {} THEN Len(party_status)
                 ELSE Minimum(stops) - 1
    IN  IF run = 0 THEN party_status ELSE SubSeq(party_status, 1, run)

\* re.match(r"([^\d現新前元]+)", s): the longest leading run of characters
\* that are neither \d nor a status character; the whole token without one.
PartyCode(party_status) ==
    LET stops == {i \in 1..Len(party_status) :
                     party_status[i] \in ReDigitChars \cup StatusChars}
        run   == IF stops = {} THEN Len(party_status)
                 ELSE Minimum(stops) - 1
    IN  IF run = 0 THEN party_status ELSE SubSeq(party_status, 1, run)

IsProportionalAsahi(district, default_district) ==
    contains(district, Hirei) \/ startswith(default_district, <<"C">>)

SenkyokuOf(is_proportional, district) ==
    IF is_proportional THEN Hirei ELSE district

\* The prefecture column filled for a proportional candidate too.
TodoufukenAlways(is_proportional, district) == district

TodoufukenOf(is_proportional, district) ==
    IF is_proportional THEN <<>> ELSE district

\* The row of one candidate.  The id column (and senkyo's yomi) is computed
\* by pykakasi's romanisation, which is no code of the scripts, and is left
\* out of the rows.
Candidate(todoufuken, senkyoku, party, name, age, detail) ==
    [todoufuken |-> todoufuken, senkyoku |-> senkyoku, seitou |-> party,
     title |-> name, detail |-> detail, age |-> age,
     tubohantei |-> <<>>, tubonaiyou |-> <<>>, tuboURL |-> <<>>,
     uraganehantei |-> <<>>, uraganenaiyou |-> <<>>, uraganeURL |-> <<>>]

\* One pass of the loop over tags: the candidate of a tag, as an optional.
EntryRecord(tag, district, default_district) ==
    LET text    == lstrip(tag.text, BulletChars)
        parts   == re_split_ws(text)
        age_idx == AgeIndex(parts)
    IN  IF EntrySkipped(age_idx, Len(parts)) THEN <<>>
        ELSE LET name         == join(SubSeq(parts, 1, age_idx - 1))
                 age          == parts[age_idx]
                 party_status == parts[age_idx + 1]
                 party        == IF tag.container_party # <<>>
                                 THEN tag.container_party
                                 ELSE PartyCode(party_status)
                 prop == IsProportionalAsahi(district, default_district)
             IN  <<Candidate(TodoufukenOf(prop, district),
                             SenkyokuOf(prop, district),
                             unify_party_asahi(party), name, age,
                             age \o Sai)>>

\* The loop over tags: a skipped tag is passed over (continue).
RECURSIVE ExtractCandidates(_, _, _)
ExtractCandidates(tags, district, default_district) ==
    IF tags = <<>> THEN <<>>
    ELSE EntryRecord(Head(tags), district, default_district)
         \o ExtractCandidates(Tail(tags), district, default_district)

\* parse_candidates of the asahi script.
parse_candidates_asahi(html, default_district) ==
    LET found == CollectTags(html)
    IN  IF found.strategy = "none" THEN <<>>
        ELSE ExtractCandidates(found.tags,
                               ResolveDistrict(html, default_district),
                               default_district)

(***************************************************************************)
(* The senkyo script's reading of a page.                                  *)
(*   meta      the <meta name="description">: content is its content       *)
(*             attribute, when it has one                                  *)
(*   title     the <title>: string is its .string, None when the title     *)
(*             does not hold exactly one string                            *)
(*   sections  the section.m_senkyo_result_data elements; in each          *)
(*       a      "h2.m_senkyo_result_data_ttl a": direct is its first own   *)
(*              string, kana the get_text(strip=True) of its kana span     *)
(*       party  get_text(strip=True) of p.m_senkyo_result_data_circle      *)
(*       age    get_text() of "p.m_senkyo_result_data_para span"           *)
(* A call that raises is the record [raised |-> TRUE, ...]: the exception  *)
(* is caught nowhere in the script and ends the run.                       *)
(***************************************************************************)

\* re.search(r"(\d+)", s): the first run of digits, as an optional.
AgeSearch(s) ==
    LET digits == {i \in 1..Len(s) : s[i] \in ReDigitChars}
    IN  IF digits = {} THEN <<>>
        ELSE LET i     == Minimum(digits)
                 stops == {j \in i..Len(s) : s[j] \notin ReDigitChars}
                 j     == IF stops = {} THEN Len(s) ELSE Minimum(stops) - 1
             IN  <<SubSeq(s, i, j)>>

\* extract_pref_name: meta["content"] raises KeyError without the attribute,
\* and "選挙区" in None raises TypeError when the title has no .string.
extract_pref_name(html) ==
    LET raised == IF html.meta # <<>>
                  THEN html.meta[1].content = <<>>
                  ELSE html.title # <<>> /\ html.title[1].string = <<>>
        text   == IF html.meta # <<>> THEN html.meta[1].content[1]
                  ELSE IF html.title # <<>> THEN html.title[1].string[1]
                  ELSE <<>>
    IN  IF raised THEN [raised |-> TRUE, name |-> <<>>]
        ELSE [raised |-> FALSE,
              name   |-> IF contains(text, Senkyoku)
                         THEN strip(split(text, Senkyoku)[1])
                         ELSE strip(text)]

\* kana of a section's link: "" without the span.
KanaOf(a) == IF a.kana # <<>> THEN a.kana[1] ELSE <<>>

\* Whether a section makes parse_candidates raise: a.find(string=True,
\* recursive=False) is None (AttributeError on .strip()), or there is no
\* kana and kanji.split() is empty (IndexError on [0]).
SectionRaises(sec) ==
    /\ sec.a # <<>>
    /\ \/ sec.a[1].direct = <<>>
       \/ /\ KanaOf(sec.a[1]) = <<>>
          /\ split_ws(strip(sec.a[1].direct[1])) = <<>>

\* The row of a section that does not raise, as an optional: a section
\* without the link is passed over.
SectionRecord(sec, senkyoku, is_proportional) ==
    IF sec.a = <<>> THEN <<>>
    ELSE LET kanji == strip(sec.a[1].direct[1])
             party == IF sec.party # <<>>
                      THEN unify_party_senkyo(sec.party[1]) ELSE <<>>
             m     == IF sec.age # <<>> THEN AgeSearch(sec.age[1]) ELSE <<>>
             age   == IF m # <<>> THEN m[1] ELSE <<>>
         IN  <<Candidate(TodoufukenOf(is_proportional, senkyoku),
                         SenkyokuOf(is_proportional, senkyoku),
                         party, kanji, age,
                         IF age # <<>> THEN age \o Sai ELSE <<>>)>>

RECURSIVE SectionRows(_, _, _)
SectionRows(sections, senkyoku, is_proportional) ==
    IF sections = <<>> THEN <<>>
    ELSE SectionRecord(Head(sections), senkyoku, is_proportional)
         \o SectionRows(Tail(sections), senkyoku, is_proportional)

\* parse_candidates of the senkyo script.
parse_candidates_senkyo(html, senkyoku, is_proportional) ==
    IF \E i \in 1..Len(html.sections) : SectionRaises(html.sections[i])
    THEN [raised |-> TRUE, rows |-> <<>>]
    ELSE [raised |-> FALSE,
          rows   |-> SectionRows(html.sections, senkyoku, is_proportional)]

(***************************************************************************)
(* The page-set discoverers.                                               *)
(***************************************************************************)

\* range(1, 48): the prefecture codes run from 1 to 47.
LastPrefecture == 47

\* FALLBACK_CODES.remove("B32")
RemovedPrefecture == 32

DecimalDigits == <<"0", "1", "2", "3", "4", "5", "6", "7", "8", "9">>

\* f"{letter}{n:02d}"
Code(letter, n) ==
    <<letter, DecimalDigits[(n \div 10) + 1], DecimalDigits[(n % 10) + 1]>>

\* B01..B47 without B32, then C01.
FALLBACK_CODES ==
    SelectSeq([n \in 1..LastPrefecture |-> Code("B", n)],
              LAMBDA c : c # Code("B", RemovedPrefecture))
    \o <<Code("C", 1)>>

UpperChars ==
    {"A", "B", "C", "D", "E", "F", "G", "H", "I", "J", "K", "L", "M",
     "N", "O", "P", "Q", "R", "S", "T", "U", "V", "W", "X", "Y", "Z"}

KohoDir  == <<"/", "k", "o", "h", "o", "/">>     \* /koho/
DotHtml  == <<".", "h", "t", "m", "l">>          \* .html
PrefectureDir == <<"/", "p", "r", "e", "f", "e", "c", "t", "u", "r", "e", "/">>
HireiPartyDir ==
    <<"/", "h", "i", "r", "e", "i", "_", "p", "a", "r", "t", "y", "/">>
Http     == <<"h", "t", "t", "p">>
Slash    == <<"/">>

\* re.search(r"/koho/([A-Z]\d{2})\.html", href): group 1 of the leftmost
\* match, as an optional.
KohoSearch(href) ==
    LET at == {i \in 1..Len(href) :
                  /\ StartsWithAt(href, i, KohoDir)
                  /\ i + 8 <= Len(href)
                  /\ href[i + 6] \in UpperChars
                  /\ href[i + 7] \in ReDigitChars
                  /\ href[i + 8] \in ReDigitChars
                  /\ StartsWithAt(href, i + 9, DotHtml)}
    IN  IF at = {} THEN <<>>
        ELSE <<SubSeq(href, Minimum(at) + 6, Minimum(at) + 8)>>

\* The codes the links of the index page name.
LinkedCodes(soup) ==
    {KohoSearch(h)[1] : h \in {x \in Range(soup.hrefs) : KohoSearch(x) # <<>>}}

\* get_district_codes, from the fetched index page on.
get_district_codes(html) ==
    IF ~html.nonempty THEN FALLBACK_CODES
    ELSE IF LinkedCodes(html) = {} THEN FALLBACK_CODES
    ELSE sorted(LinkedCodes(html))

\* get_list_paths, from the fetched index page on: the sorted sets of the
\* links that hold /prefecture/ and of those that hold /hirei_party/.
get_list_paths(html) ==
    [pref_paths  |-> sorted({h \in Range(html.hrefs) :
                                contains(h, PrefectureDir)}),
     hirei_paths |-> sorted({h \in Range(html.hrefs) :
                                contains(h, HireiPartyDir)})]

\* path.rstrip("/").split("/")[-1]
LastSegment(path) ==
    LET pieces == split(rstrip(path, {"/"}), Slash)
    IN  pieces[Len(pieces)]

\* extract_pref_name(html) or path.rstrip("/").split("/")[-1]
PrefSenkyoku(name, path) == IF name # <<>> THEN name ELSE LastSegment(path)

(***************************************************************************)
(* The inputs the model draws: texts of list items, pages, responses.      *)
(***************************************************************************)

\* the most entries (list items, sections) of a page given to the parsers
MaxEntries == 2

\* the most pages of a run whose page loop is followed
MaxPages == 2

\* the largest retry count fetch is called with on its own
MaxRetry == 3

Yamada      == <<"u5C71", "u7530", "u592A", "u90CE">>          \* 山田太郎
Age52Wide   == <<"uFF15", "uFF12">>                            \* ５２
Age52       == <<"5", "2">>                                    \* 52
JiGenMaru1  == <<"u81EA", "u73FE", "u2460">>                   \* 自現①
Ji          == <<"u81EA">>                                     \* 自
Jimin       == <<"u81EA", "u6C11">>                            \* 自民
Jiminto     == <<"u81EA", "u6C11", "u515A">>                   \* 自民党
Komeito     == <<"u516C", "u660E", "u515A">>                   \* 公明党
B13         == <<"B", "1", "3">>
C01         == <<"C", "0", "1">>

\* ●山田太郎 ５２ 自現①
EntrySpaced ==
    <<"u25CF", "u5C71", "u7530", "u592A", "u90CE", " ", "uFF15", "uFF12",
      " ", "u81EA", "u73FE", "u2460">>

\* ●山田太郎５２自現①
EntryUnspaced ==
    <<"u25CF", "u5C71", "u7530", "u592A", "u90CE", "uFF15", "uFF12",
      "u81EA", "u73FE", "u2460">>

\* 山田 ５２   (the numeric token is the last one)
EntryAgeLast == <<"u5C71", "u7530", " ", "uFF15", "uFF12">>

\* ＊注
EntryFootnote == <<"uFF0A", "u6CE8">>

\* ● 山田　太郎 52 現新   (a space after the bullet, the name in two tokens,
\* a party token that starts with a status character)
EntryTwoNames ==
    <<"u25CF", " ", "u5C71", "u7530", "u3000", "u592A", "u90CE", " ",
      "5", "2", " ", "u73FE", "u65B0">>

\* 顔ぶれの見方
EntryLegend == Kaobure

\* an element without text
EntryBlank == <<>>

\* get_text(" ", strip=True) of a list item: no whitespace at either end.
EntryTexts ==
    {EntrySpaced, EntryUnspaced, EntryAgeLast, EntryFootnote, EntryTwoNames,
     EntryLegend, EntryBlank}

EntrySeqs == UNION {[1..n -> EntryTexts] : n \in 0..MaxEntries}

\* 参院選東京選挙区候補者一覧
TitleTokyo ==
    <<"u53C2", "u9662", "u9078", "u6771", "u4EAC", "u9078", "u6319", "u533A",
      "u5019", "u88DC", "u8005", "u4E00", "u89A7">>

\* 参院選 比例区 候補者一覧
TitleHirei ==
    <<"u53C2", "u9662", "u9078", " ", "u6BD4", "u4F8B", "u533A", " ",
      "u5019", "u88DC", "u8005", "u4E00", "u89A7">>

\* 第27回参議院議員選挙   (no match of the title pattern)
TitleOther ==
    <<"u7B2C", "2", "7", "u56DE", "u53C2", "u8B70", "u9662", "u8B70",
      "u54E1", "u9078", "u6319">>

\* The h1 of a page and the code it is fetched under.
DistrictInputs ==
    {[h1 |-> <<>>, default_district |-> C01],
     [h1 |-> <<TitleTokyo>>, default_district |-> B13],
     [h1 |-> <<TitleHirei>>, default_district |-> B13],
     [h1 |-> <<TitleOther>>, default_district |-> B13]}

Container(h3, lis) == [h3 |-> h3, lis |-> lis]

\* The pages parse_candidates of the asahi script is applied to: the
\* entries es stand after the marker heading (old), or the first k of them
\* in one container and the rest after the heading (one), or in two
\* containers (two).
AsahiParsePages ==
    {[BlankDoc EXCEPT !.h2 = b, !.next = es] :
        b \in BOOLEAN, es \in EntrySeqs}
    \cup
    UNION {{[BlankDoc EXCEPT
                !.containers = <<Container(p, SubSeq(es, 1, k))>>,
                !.h2 = b, !.next = SubSeq(es, k + 1, Len(es))] :
              b \in BOOLEAN, p \in {<<>>, <<Komeito>>}, k \in 0..Len(es)} :
           es \in EntrySeqs}
    \cup
    UNION {{[BlankDoc EXCEPT
                !.containers = <<Container(<<>>, SubSeq(es, 1, k)),
                                 Container(<<Komeito>>,
                                           SubSeq(es, k + 1, Len(es)))>>] :
              k \in 0..Len(es)} :
           es \in EntrySeqs}

\* The calls of parse_candidates of the asahi script: every page above under
\* the code B13, and each kind of page with each heading and code.
AsahiParseInputs ==
    {[html |-> p, default_district |-> B13] : p \in AsahiParsePages}
    \cup {[html |-> [p EXCEPT !.h1 = d.h1],
           default_district |-> d.default_district] :
             p \in {[BlankDoc EXCEPT !.h2 = TRUE, !.next = <<EntrySpaced>>],
                    [BlankDoc EXCEPT !.containers =
                        <<Container(<<>>, <<EntryAgeLast, EntryTwoNames>>)>>],
                    [BlankDoc EXCEPT !.containers =
                        <<Container(<<Komeito>>, <<EntrySpaced>>)>>]},
             d \in DistrictInputs}

Link(direct, kana) == [direct |-> direct, kana |-> kana]

Section(a, party, age) == [a |-> a, party |-> party, age |-> age]

\* 山田太郎 with its kana ヤマダ タロウ, 自民党, 52歳
SecFull ==
    Section(<<Link(<<Yamada \o <<" ">>>>,
                   <<<<"u30E4", "u30DE", "u30C0", " ",
                       "u30BF", "u30ED", "u30A6">>>>)>>,
            <<Jiminto>>, <<<<"5", "2", "u6B73">>>>)

\* 佐藤花子, without kana, party and age
SecBare ==
    Section(<<Link(<<<<"u4F50", "u85E4", "u82B1", "u5B50">>>>, <<>>)>>,
            <<>>, <<>>)

\* a section without the link
SecNoLink == Section(<<>>, <<Jiminto>>, <<>>)

\* a link that holds only the kana span: no string of its own
SecNoString ==
    Section(<<Link(<<>>, <<<<"u30E4", "u30DE", "u30C0">>>>)>>, <<>>, <<>>)

\* a link whose own string is blank, without kana
SecBlankName == Section(<<Link(<<<<" ">>>>, <<>>)>>, <<>>, <<>>)

SectionKinds == {SecFull, SecBare, SecNoLink, SecNoString, SecBlankName}

SectionSeqs == UNION {[1..n -> SectionKinds] : n \in 0..MaxEntries}

\* 東京都
Tokyoto == <<"u6771", "u4EAC", "u90FD">>

\* The calls of parse_candidates of the senkyo script.
SenkyoParseInputs ==
    {[html |-> [BlankDoc EXCEPT !.sections = ss], senkyoku |-> s,
      is_proportional |-> p] :
        ss \in SectionSeqs, s \in {Tokyoto, <<"1", "3">>}, p \in BOOLEAN}

\* 無所属の会, a name in neither table
Mushozokunokai == <<"u7121", "u6240", "u5C5E", "u306E", "u4F1A">>

\* The names unify_party is applied to: every key, every value, and names
\* that are neither.
UnifyInputs(aliases) ==
    {p[1] : p \in aliases} \cup {p[2] : p \in aliases}
    \cup {<<>>, Mushozokunokai, <<"u6C11">>}

(***************************************************************************)
(* The pages the sites serve in the runs of main.                          *)
(***************************************************************************)

\* new structure: a district page with a well-formed and a malformed item
AsahiPageNew ==
    [BlankDoc EXCEPT !.h1 = <<TitleTokyo>>,
                     !.containers =
                         <<Container(<<>>, <<EntrySpaced, EntryAgeLast>>)>>]

\* old structure: items after the marker heading, up to the footnote
AsahiPageOld ==
    [BlankDoc EXCEPT !.h2 = TRUE,
                     !.next = <<EntryTwoNames, EntryFootnote, EntrySpaced>>]

\* the proportional page: a container under a party heading
AsahiPageHirei ==
    [BlankDoc EXCEPT !.h1 = <<TitleHirei>>,
                     !.containers = <<Container(<<Komeito>>, <<EntrySpaced>>)>>]

AsahiPages == {EmptyHtml, BlankDoc, AsahiPageNew, AsahiPageOld, AsahiPageHirei}

HrefB13   == <<"/", "k", "o", "h", "o", "/", "B", "1", "3", ".", "h", "t", "m", "l">>
HrefB01   == <<"/", "k", "o", "h", "o", "/", "B", "0", "1", ".", "h", "t", "m", "l">>
HrefC01   == <<"/", "k", "o", "h", "o", "/", "C", "0", "1", ".", "h", "t", "m", "l">>
HrefPref13 ==
    <<"/", "p", "r", "e", "f", "e", "c", "t", "u", "r", "e", "/", "1", "3", "/">>
HrefPref01 ==
    <<"/", "p", "r", "e", "f", "e", "c", "t", "u", "r", "e", "/", "0", "1", "/">>
HrefHireiJi ==
    <<"/", "h", "i", "r", "e", "i", "_", "p", "a", "r", "t", "y", "/", "j", "i", "/">>

\* The index pages: without links, with links that name no page, with the
\* links of one, two and three pages (out of order, one twice).
IndexPages ==
    {EmptyHtml, BlankDoc,
     [BlankDoc EXCEPT !.hrefs = <<KohoDir>>],
     [BlankDoc EXCEPT !.hrefs = <<HrefB13, KohoDir, HrefPref13>>],
     [BlankDoc EXCEPT !.hrefs = <<HrefC01, HrefB13, HrefC01,
                                  HrefHireiJi, HrefPref13>>],
     [BlankDoc EXCEPT !.hrefs = <<HrefC01, HrefB13, HrefB01,
                                  HrefPref13, HrefHireiJi, HrefPref01>>]}

\* 東京都選挙区 候補者
MetaTokyo ==
    <<"u6771", "u4EAC", "u90FD", "u9078", "u6319", "u533A", " ",
      "u5019", "u88DC", "u8005">>

\* a page with a description and two sections, one of them without link
SenkyoPageFull ==
    [BlankDoc EXCEPT !.meta = <<[content |-> <<MetaTokyo>>]>>,
                     !.sections = <<SecNoLink, SecFull>>]

\* a page without description and title, with one section
SenkyoPageBare == [BlankDoc EXCEPT !.sections = <<SecBare>>]

\* a page on which parse_candidates raises
SenkyoPageNoString == [BlankDoc EXCEPT !.sections = <<SecFull, SecNoString>>]

\* a page whose description has no content attribute
SenkyoPageNoContent ==
    [BlankDoc EXCEPT !.meta = <<[content |-> <<>>]>>,
                     !.sections = <<SecFull>>]

\* a page without description whose title has no .string
SenkyoPageNoTitleString ==
    [BlankDoc EXCEPT !.title = <<[string |-> <<>>]>>]

SenkyoPages ==
    {EmptyHtml, SenkyoPageFull, SenkyoPageBare, SenkyoPageNoString,
     SenkyoPageNoContent, SenkyoPageNoTitleString}

(***************************************************************************)
(* The state of a run.                                                     *)
(***************************************************************************)
VARIABLES
    script,          \* which script runs: "asahi" or "senkyo"
    pc,              \* where main stands
    idx,             \* the place in the list the current for loop walks
    url,             \* the url of the last call of fetch
    district_codes,  \* main's district_codes (asahi)
    pref_paths,      \* main's pref_paths (senkyo)
    hirei_paths,     \* main's hirei_paths (senkyo)
    all_rows,        \* main's all_rows
    fetched,         \* the value of html in each pass of the page loops
    parsed,          \* the value of rows in each pass of the page loops
    csv_opens,       \* how often saninsen2025_candidates.csv was opened
    csv_rows,        \* the rows written to it
    report,          \* the last line main printed about the outcome
    fpc,             \* where fetch stands: "idle", "try", "returned", "raised"
    retry,           \* fetch's retry
    attempt,         \* the passes of fetch's for loop that have ended
    outcomes,        \* the outcome of each GET of the current call of fetch
    sleeps,          \* the calls of time.sleep(sleep) in that call
    html,            \* what fetch returned
    fn,              \* the function applied on its own, "none" in a run
    arg,             \* its argument
    stage,           \* how far it has been applied
    out              \* its result

vars ==
    <<script, pc, idx, url, district_codes, pref_paths, hirei_paths,
      all_rows, parsed, fetched, csv_opens, csv_rows, report, fpc, retry, attempt,
      outcomes, sleeps, html, fn, arg, stage, out>>

mainVars ==
    <<script, pc, idx, district_codes, pref_paths, hirei_paths, all_rows,
      parsed, fetched, csv_opens, csv_rows, report>>

fetchVars == <<url, fpc, retry, attempt, outcomes, sleeps, html>>

applyVars == <<fn, arg, stage, out>>

\* https://www.asahi.com/senkyo/saninsen/koho/
AsahiBase ==
    <<"h", "t", "t", "p", "s", ":", "/", "/", "w", "w", "w", ".", "a", "s",
      "a", "h", "i", ".", "c", "o", "m", "/", "s", "e", "n", "k", "y", "o",
      "/", "s", "a", "n", "i", "n", "s", "e", "n", "/", "k", "o", "h", "o",
      "/">>

\* https://go2senkyo.com
SenkyoHost ==
    <<"h", "t", "t", "p", "s", ":", "/", "/", "g", "o", "2", "s", "e", "n",
      "k", "y", "o", ".", "c", "o", "m">>

\* https://go2senkyo.com/sangiin/20376
SenkyoBase ==
    SenkyoHost \o <<"/", "s", "a", "n", "g", "i", "i", "n", "/",
                    "2", "0", "3", "7", "6">>

\* f"{BASE}{code}.html"
AsahiUrl(code) == AsahiBase \o code \o DotHtml

\* path if path.startswith("http") else f"https://go2senkyo.com{path}"
SenkyoUrl(path) == IF startswith(path, Http) THEN path ELSE SenkyoHost \o path

(***************************************************************************)
(* fetch(url, retry, sleep): one action for each way a pass of its loop    *)
(* ends, and one for the loop running out.                                 *)
(***************************************************************************)

\* retry: int = 3
DefaultRetry == 3

\* requests.get raised (no connection, timeout): no response.
NetworkError == [kind |-> "error", status |-> 0, text |-> EmptyHtml]

Response(status, text) == [kind |-> "response", status |-> status, text |-> text]

\* The bodies the server may send to the current request.
Bodies ==
    IF fn = "fetch" THEN {EmptyHtml, BlankDoc}
    ELSE IF pc = "discover" THEN IndexPages
    ELSE IF script = "asahi" THEN AsahiPages
    ELSE SenkyoPages

\* What a GET may end in: an exception of requests.get, or a response.  The
\* body of an error response is not read.
Outcomes ==
    {NetworkError}
    \cup {Response(s, EmptyHtml) : s \in {404, 500, 503}}
    \cup {Response(s, b) : s \in {200, 300}, b \in Bodies}

\* fetch without its test for 404: the status goes on to raise_for_status.
IsNotFoundUnchecked(o) == FALSE

\* r.status_code == 404
IsNotFound(o) == o.kind = "response" /\ o.status = 404

\* r.raise_for_status() raises HTTPError for the 4xx and 5xx statuses.
RaisesForStatus(status) == 400 <= status /\ status < 600

\* Whether the pass raises inside the try block.
Raises(o) ==
    \/ o.kind = "error"
    \/ o.kind = "response" /\ ~IsNotFound(o) /\ RaisesForStatus(o.status)

\* except Exception: every exception raised in the try block is caught.
Caught(o) == TRUE

\* A loop that runs once more than retry says.
LoopRunsOnceMore(n, r) == n <= r

\* for _ in range(retry): whether another pass begins.
LoopRuns(n, r) == n < r

\* The call fetch(u) of main: retry and sleep take their defaults.
CallFetch(u) ==
    /\ url' = u
    /\ fpc' = "try"
    /\ retry' = DefaultRetry
    /\ attempt' = 0
    /\ outcomes' = <<>>
    /\ sleeps' = 0
    /\ UNCHANGED html

\* The response is a 404: return "" at once.
GetNotFound ==
    /\ fpc = "try"
    /\ LoopRuns(attempt, retry)
    /\ \E o \in Outcomes :
          /\ IsNotFound(o)
          /\ outcomes' = Append(outcomes, o)
    /\ html' = EmptyHtml
    /\ fpc' = "returned"
    /\ UNCHANGED <<url, retry, attempt, sleeps>>
    /\ UNCHANGED mainVars
    /\ UNCHANGED applyVars

\* The pass raises: the exception is caught, the call sleeps and the pass
\* ends.
GetFails ==
    /\ fpc = "try"
    /\ LoopRuns(attempt, retry)
    /\ \E o \in Outcomes :
          /\ Raises(o)
          /\ outcomes' = Append(outcomes, o)
          /\ IF Caught(o)
             THEN /\ sleeps' = sleeps + 1
                  /\ attempt' = attempt + 1
                  /\ fpc' = "try"
             ELSE /\ fpc' = "raised"
                  /\ UNCHANGED <<sleeps, attempt>>
    /\ UNCHANGED <<url, retry, html>>
    /\ UNCHANGED mainVars
    /\ UNCHANGED applyVars

\* The response is neither a 404 nor an error status: return r.text.
GetSucceeds ==
    /\ fpc = "try"
    /\ LoopRuns(attempt, retry)
    /\ \E o \in Outcomes :
          /\ ~IsNotFound(o)
          /\ ~Raises(o)
          /\ outcomes' = Append(outcomes, o)
          /\ html' = o.text
    /\ fpc' = "returned"
    /\ UNCHANGED <<url, retry, attempt, sleeps>>
    /\ UNCHANGED mainVars
    /\ UNCHANGED applyVars

\* The loop has run retry times: "Failed to fetch", return "".
FetchGivesUp ==
    /\ fpc = "try"
    /\ ~LoopRuns(attempt, retry)
    /\ html' = EmptyHtml
    /\ fpc' = "returned"
    /\ UNCHANGED <<url, retry, attempt, outcomes, sleeps>>
    /\ UNCHANGED mainVars
    /\ UNCHANGED applyVars

Fetch == GetNotFound \/ GetFails \/ GetSucceeds \/ FetchGivesUp

(***************************************************************************)
(* main of the asahi script.                                               *)
(***************************************************************************)

\* district_codes = get_district_codes(), once its fetch(BASE) has returned.
AsahiDiscover ==
    /\ script = "asahi"
    /\ pc = "discover"
    /\ fpc = "returned"
    /\ district_codes' = get_district_codes(html)
    /\ idx' = 1
    /\ pc' = "loop"
    /\ fpc' = "idle"
    /\ UNCHANGED <<pref_paths, hirei_paths, all_rows, parsed, fetched, csv_opens,
                   csv_rows, report, script>>
    /\ UNCHANGED <<url, retry, attempt, outcomes, sleeps, html>>
    /\ UNCHANGED applyVars

\* The head of the for loop with a code left: html = fetch(url).  The loop
\* is followed in the runs of at most MaxPages pages.
AsahiNextPage ==
    /\ script = "asahi"
    /\ pc = "loop"
    /\ idx <= Len(district_codes)
    /\ Len(district_codes) <= MaxPages
    /\ CallFetch(AsahiUrl(district_codes[idx]))
    /\ pc' = "page"
    /\ UNCHANGED <<script, idx, district_codes, pref_paths, hirei_paths,
                   all_rows, parsed, fetched, csv_opens, csv_rows, report>>
    /\ UNCHANGED applyVars

\* The rows of a page put in front of those of the pages before it.
ExtendInFront(rows_so_far, rows) == rows \o rows_so_far

\* all_rows.extend(rows)
Extend(rows_so_far, rows) == rows_so_far \o rows

\* The rest of the loop body, once fetch has returned: parse, extend, sleep.
AsahiProcessPage ==
    /\ script = "asahi"
    /\ pc = "page"
    /\ fpc = "returned"
    /\ LET rows == parse_candidates_asahi(html, district_codes[idx])
       IN  /\ all_rows' = Extend(all_rows, rows)
           /\ parsed' = Append(parsed, rows)
           /\ fetched' = Append(fetched, html)
    /\ idx' = idx + 1
    /\ pc' = "loop"
    /\ fpc' = "idle"
    /\ UNCHANGED <<script, district_codes, pref_paths, hirei_paths,
                   csv_opens, csv_rows, report>>
    /\ UNCHANGED <<url, retry, attempt, outcomes, sleeps, html>>
    /\ UNCHANGED applyVars

(***************************************************************************)
(* main of the senkyo script.                                              *)
(***************************************************************************)

\* pref_paths, hirei_paths = get_list_paths(), once fetch(BASE) has returned.
SenkyoDiscover ==
    /\ script = "senkyo"
    /\ pc = "discover"
    /\ fpc = "returned"
    /\ pref_paths' = get_list_paths(html).pref_paths
    /\ hirei_paths' = get_list_paths(html).hirei_paths
    /\ idx' = 1
    /\ pc' = "pref_loop"
    /\ fpc' = "idle"
    /\ UNCHANGED <<district_codes, all_rows, parsed, fetched, csv_opens, csv_rows,
                   report, script>>
    /\ UNCHANGED <<url, retry, attempt, outcomes, sleeps, html>>
    /\ UNCHANGED applyVars

\* The head of the first loop with a path left.
SenkyoNextPref ==
    /\ script = "senkyo"
    /\ pc = "pref_loop"
    /\ idx <= Len(pref_paths)
    /\ Len(pref_paths) + Len(hirei_paths) <= MaxPages
    /\ CallFetch(SenkyoUrl(pref_paths[idx]))
    /\ pc' = "pref_page"
    /\ UNCHANGED <<script, idx, district_codes, pref_paths, hirei_paths,
                   all_rows, parsed, fetched, csv_opens, csv_rows, report>>
    /\ UNCHANGED applyVars

\* The rest of the first loop's body.  An exception of extract_pref_name or
\* of parse_candidates ends the run.
SenkyoProcessPref ==
    /\ script = "senkyo"
    /\ pc = "pref_page"
    /\ fpc = "returned"
    /\ LET pref     == extract_pref_name(html)
           senkyoku == PrefSenkyoku(pref.name, pref_paths[idx])
           result   == parse_candidates_senkyo(html, senkyoku, FALSE)
       IN  IF pref.raised \/ result.raised
           THEN /\ pc' = "crashed"
                /\ UNCHANGED <<all_rows, parsed, fetched, idx>>
           ELSE /\ all_rows' = Extend(all_rows, result.rows)
                /\ parsed' = Append(parsed, result.rows)
                /\ fetched' = Append(fetched, html)
                /\ idx' = idx + 1
                /\ pc' = "pref_loop"
    /\ fpc' = "idle"
    /\ UNCHANGED <<script, district_codes, pref_paths, hirei_paths,
                   csv_opens, csv_rows, report>>
    /\ UNCHANGED <<url, retry, attempt, outcomes, sleeps, html>>
    /\ UNCHANGED applyVars

\* The first loop ends and the second begins.
SenkyoPrefLoopEnds ==
    /\ script = "senkyo"
    /\ pc = "pref_loop"
    /\ idx > Len(pref_paths)
    /\ idx' = 1
    /\ pc' = "hirei_loop"
    /\ UNCHANGED <<script, district_codes, pref_paths, hirei_paths, all_rows,
                   parsed, fetched, csv_opens, csv_rows, report>>
    /\ UNCHANGED fetchVars
    /\ UNCHANGED applyVars

\* path.rstrip("/").split("/")[-2]
PartyName(path) ==
    LET pieces == split(rstrip(path, {"/"}), Slash)
    IN  pieces[Len(pieces) - 1]

\* The head of the second loop with a path left.
SenkyoNextHirei ==
    /\ script = "senkyo"
    /\ pc = "hirei_loop"
    /\ idx <= Len(hirei_paths)
    /\ Len(pref_paths) + Len(hirei_paths) <= MaxPages
    /\ CallFetch(SenkyoUrl(hirei_paths[idx]))
    /\ pc' = "hirei_page"
    /\ UNCHANGED <<script, idx, district_codes, pref_paths, hirei_paths,
                   all_rows, parsed, fetched, csv_opens, csv_rows, report>>
    /\ UNCHANGED applyVars

\* The rest of the second loop's body.
SenkyoProcessHirei ==
    /\ script = "senkyo"
    /\ pc = "hirei_page"
    /\ fpc = "returned"
    /\ LET result == parse_candidates_senkyo(html,
                                             PartyName(hirei_paths[idx]),
                                             TRUE)
       IN  IF result.raised
           THEN /\ pc' = "crashed"
                /\ UNCHANGED <<all_rows, parsed, fetched, idx>>
           ELSE /\ all_rows' = Extend(all_rows, result.rows)
                /\ parsed' = Append(parsed, result.rows)
                /\ fetched' = Append(fetched, html)
                /\ idx' = idx + 1
                /\ pc' = "hirei_loop"
    /\ fpc' = "idle"
    /\ UNCHANGED <<script, district_codes, pref_paths, hirei_paths,
                   csv_opens, csv_rows, report>>
    /\ UNCHANGED <<url, retry, attempt, outcomes, sleeps, html>>
    /\ UNCHANGED applyVars

(***************************************************************************)
(* The end of main, the same in both scripts.                              *)
(***************************************************************************)

\* The last page loop has ended.
LoopsEnded ==
    \/ script = "asahi" /\ pc = "loop" /\ idx > Len(district_codes)
    \/ script = "senkyo" /\ pc = "hirei_loop" /\ idx > Len(hirei_paths)

\* main without its test for an empty list: the file is always written.
NoDataNever(rows) == FALSE

\* if not all_rows
NoData(rows) == rows = <<>>

\* "No data scraped. Aborting."
Abort ==
    /\ LoopsEnded
    /\ NoData(all_rows)
    /\ report' = "no data"
    /\ pc' = "done"
    /\ UNCHANGED <<script, idx, district_codes, pref_paths, hirei_paths,
                   all_rows, parsed, fetched, csv_opens, csv_rows>>
    /\ UNCHANGED fetchVars
    /\ UNCHANGED applyVars

\* open(..., "w"), the header and writer.writerows(all_rows): "Saved ...".
SaveCsv ==
    /\ LoopsEnded
    /\ ~NoData(all_rows)
    /\ csv_opens' = csv_opens + 1
    /\ csv_rows' = all_rows
    /\ report' = "saved"
    /\ pc' = "done"
    /\ UNCHANGED <<script, idx, district_codes, pref_paths, hirei_paths,
                   all_rows, parsed, fetched>>
    /\ UNCHANGED fetchVars
    /\ UNCHANGED applyVars

\* A run starts in get_district_codes or get_list_paths, at fetch(BASE).
Init ==
    /\ script \in {"asahi", "senkyo"}
    /\ pc = "discover"
    /\ idx = 1
    /\ url = IF script = "asahi" THEN AsahiBase ELSE SenkyoBase
    /\ district_codes = <<>>
    /\ pref_paths = <<>>
    /\ hirei_paths = <<>>
    /\ all_rows = <<>>
    /\ parsed = <<>>
    /\ fetched = <<>>
    /\ csv_opens = 0
    /\ csv_rows = <<>>
    /\ report = "none"
    /\ fpc = "try"
    /\ retry = DefaultRetry
    /\ attempt = 0
    /\ outcomes = <<>>
    /\ sleeps = 0
    /\ html = EmptyHtml
    /\ fn = "none"
    /\ arg = <<>>
    /\ stage = "idle"
    /\ out = <<>>

Next ==
    \/ GetNotFound
    \/ GetFails
    \/ GetSucceeds
    \/ FetchGivesUp
    \/ AsahiDiscover
    \/ AsahiNextPage
    \/ AsahiProcessPage
    \/ SenkyoDiscover
    \/ SenkyoNextPref
    \/ SenkyoProcessPref
    \/ SenkyoPrefLoopEnds
    \/ SenkyoNextHirei
    \/ SenkyoProcessHirei
    \/ Abort
    \/ SaveCsv

Spec == Init /\ [][Next]_vars

(***************************************************************************)
(* fetch called on its own, with any retry count.                          *)
(***************************************************************************)

\* The values the variables of a run of main keep outside one.
NoRun ==
    /\ script = "none"
    /\ pc = "none"
    /\ idx = 1
    /\ district_codes = <<>>
    /\ pref_paths = <<>>
    /\ hirei_paths = <<>>
    /\ all_rows = <<>>
    /\ parsed = <<>>
    /\ fetched = <<>>
    /\ csv_opens = 0
    /\ csv_rows = <<>>
    /\ report = "none"

FetchInit ==
    /\ NoRun
    /\ fn = "fetch"
    /\ arg = <<>>
    /\ stage = "idle"
    /\ out = <<>>
    /\ url = AsahiBase
    /\ fpc = "try"
    /\ retry \in 0..MaxRetry
    /\ attempt = 0
    /\ outcomes = <<>>
    /\ sleeps = 0
    /\ html = BlankDoc

\* fetch wherever it is called: by main with the defaults, or on its own.
\* A pass of its loop ends: requests.get has timeout=10 and time.sleep(sleep)
\* returns, so a call of fetch that can take a step takes one.
FetchSpec == (Init \/ FetchInit) /\ [][Next]_vars /\ WF_vars(Fetch)

(***************************************************************************)
(* The parsers and unify_party applied on their own to the inputs above.   *)
(***************************************************************************)

ParseInit ==
    /\ NoRun
    /\ url = <<>>
    /\ fpc = "idle"
    /\ retry = DefaultRetry
    /\ attempt = 0
    /\ outcomes = <<>>
    /\ sleeps = 0
    /\ html = EmptyHtml
    /\ stage = "input"
    /\ out = <<>>
    /\ \/ /\ fn = "parse_candidates_asahi"
          /\ arg \in AsahiParseInputs
       \/ /\ fn = "parse_candidates_senkyo"
          /\ arg \in SenkyoParseInputs
       \/ /\ fn = "unify_party_asahi"
          /\ arg \in UnifyInputs(aliases_asahi)
       \/ /\ fn = "unify_party_senkyo"
          /\ arg \in UnifyInputs(aliases_senkyo)

\* rows = parse_candidates(html, code) of the asahi script; found and
\* district are the tags and the district it works with.
ApplyAsahiParse ==
    /\ fn = "parse_candidates_asahi"
    /\ stage = "input"
    /\ out' = [found    |-> CollectTags(arg.html),
               district |-> ResolveDistrict(arg.html, arg.default_district),
               rows     |-> parse_candidates_asahi(arg.html,
                                                   arg.default_district)]
    /\ stage' = "done"
    /\ UNCHANGED <<fn, arg>>
    /\ UNCHANGED mainVars
    /\ UNCHANGED fetchVars

\* parse_candidates(html, senkyoku, is_proportional) of the senkyo script.
ApplySenkyoParse ==
    /\ fn = "parse_candidates_senkyo"
    /\ stage = "input"
    /\ out' = parse_candidates_senkyo(arg.html, arg.senkyoku,
                                      arg.is_proportional)
    /\ stage' = "done"
    /\ UNCHANGED <<fn, arg>>
    /\ UNCHANGED mainVars
    /\ UNCHANGED fetchVars

\* unify_party of the script fn names.
unify_party(name) ==
    IF fn = "unify_party_asahi" THEN unify_party_asahi(name)
    ELSE unify_party_senkyo(name)

\* unify_party(name)
ApplyUnify ==
    /\ fn \in {"unify_party_asahi", "unify_party_senkyo"}
    /\ stage = "input"
    /\ out' = <<unify_party(arg)>>
    /\ stage' = "once"
    /\ UNCHANGED <<fn, arg>>
    /\ UNCHANGED mainVars
    /\ UNCHANGED fetchVars

\* unify_party applied to its own result.
ApplyUnifyAgain ==
    /\ fn \in {"unify_party_asahi", "unify_party_senkyo"}
    /\ stage = "once"
    /\ out' = Append(out, unify_party(out[1]))
    /\ stage' = "twice"
    /\ UNCHANGED <<fn, arg>>
    /\ UNCHANGED mainVars
    /\ UNCHANGED fetchVars

ParseNext ==
    \/ ApplyAsahiParse
    \/ ApplySenkyoParse
    \/ ApplyUnify
    \/ ApplyUnifyAgain

ParseSpec == ParseInit /\ [][ParseNext]_vars

(***************************************************************************)
(* The claims of the specification, each as a formula of the model.        *)
(***************************************************************************)

\* The call of fetch that is running or has last returned is one for a
\* candidate page of a page loop, not the one for the index page.
PageFetch == url \notin {AsahiBase, SenkyoBase}

\* main has taken the result of that call and finished the loop body.
PageDone == PageFetch /\ fpc = "idle"

AnsweredNotFound(o) == o.kind = "response" /\ o.status = 404

\* C1: when a GET of fetch is answered with status 404, that GET is the last
\* one of the call, no sleep follows it and fetch returns ""; and when the
\* call was the one for a page of main's loop, the page gives zero records,
\* the run is not ended by it and main stands at the head of the loop with
\* the next page, or past the loop.
NotFoundSkipsPage ==
    \A i \in 1..Len(outcomes) :
        AnsweredNotFound(outcomes[i]) =>
            /\ i = Len(outcomes)
            /\ fpc \in {"returned", "idle"}
            /\ html = EmptyHtml
            /\ sleeps = i - 1
            /\ attempt = i - 1
            /\ PageDone =>
                  /\ pc \in {"loop", "pref_loop", "hirei_loop", "done"}
                  /\ parsed # <<>>
                  /\ parsed[Len(parsed)] = <<>>
                  /\ fetched[Len(fetched)] = EmptyHtml
                  /\ pc = "loop" => idx = Len(parsed) + 1

\* A run of the asahi script over two pages: the first page was answered
\* with a 404 on the second GET, gave zero records, and the second page is
\* the next.
NotFoundSkipsPageWitness ==
    /\ script = "asahi"
    /\ pc = "loop"
    /\ PageDone
    /\ Len(district_codes) = 2
    /\ idx = 2
    /\ Len(outcomes) = 2
    /\ AnsweredNotFound(outcomes[2])
    /\ parsed = << <<>> >>

\* An attempt of fetch fails when requests.get raises or when
\* raise_for_status raises, which it does for the statuses 400 to 599; the
\* 404 is answered before that.
AttemptFailed(o) ==
    \/ o.kind = "error"
    \/ /\ o.kind = "response"
       /\ 400 <= o.status /\ o.status < 600
       /\ ~AnsweredNotFound(o)

\* The reading of the claim's words: every status outside 200..299 but 404
\* is a failed attempt.
AttemptNon2xx(o) ==
    \/ o.kind = "error"
    \/ /\ o.kind = "response"
       /\ ~(200 <= o.status /\ o.status < 300)
       /\ ~AnsweredNotFound(o)

\* What fetch has to return after the outcomes so far, failed(o) telling
\* which attempts count as failed: "" after a 404, the body of the attempt
\* that did not fail, "" when each of the retry attempts failed.
FetchResultIs(failed(_)) ==
    fpc \in {"returned", "idle"} =>
        /\ \A i \in 1..(Len(outcomes) - 1) : failed(outcomes[i])
        /\ IF outcomes # <<>> /\ ~failed(outcomes[Len(outcomes)])
           THEN html = IF AnsweredNotFound(outcomes[Len(outcomes)])
                       THEN EmptyHtml
                       ELSE outcomes[Len(outcomes)].text
           ELSE /\ Len(outcomes) = retry
                /\ html = EmptyHtml
                /\ PageDone =>
                      /\ pc \in {"loop", "pref_loop", "hirei_loop", "done"}
                      /\ parsed # <<>>
                      /\ parsed[Len(parsed)] = <<>>

\* fetch never raises, makes at most retry GETs and sleeps once after each
\* failed one.
FetchStaysInBounds ==
    /\ fpc # "raised"
    /\ Len(outcomes) <= retry
    /\ fpc = "try" =>
          /\ attempt = Len(outcomes)
          /\ sleeps = attempt
          /\ \A i \in 1..Len(outcomes) : AttemptFailed(outcomes[i])

\* C2: for every retry count and every sequence of outcomes of the GETs,
\* fetch terminates, never raises, makes at most retry GETs, returns the
\* body of the first attempt that does not fail (and "" at once on a 404),
\* and returns "" when all retry attempts fail, after which main goes on
\* with the remaining pages.  An attempt fails on an exception of
\* requests.get and on a status from 400 to 599 other than 404; a response of
\* any other status, one of 100..199 or 300..399 included, is a success whose
\* body is returned.
FetchContract ==
    /\ [](FetchStaysInBounds /\ FetchResultIs(AttemptFailed))
    /\ (fpc = "try") ~> (fpc = "returned")

\* fetch(url, retry=3): two attempts failed with 503 and an exception, the
\* third was answered with a body, which is returned.
FetchContractWitness ==
    /\ fn = "fetch"
    /\ retry = 3
    /\ fpc = "returned"
    /\ Len(outcomes) = 3
    /\ outcomes[1] = Response(503, EmptyHtml)
    /\ outcomes[2] = NetworkError
    /\ outcomes[3] = Response(200, BlankDoc)
    /\ sleeps = 2
    /\ html = BlankDoc

\* C2 as the claim words it, every status that is not a 2xx (and not 404)
\* being a failed attempt: fetch returns "" when all attempts were answered
\* with such a status.
FetchContractNon2xx == FetchStaysInBounds /\ FetchResultIs(AttemptNon2xx)

\* The index page, which html holds until the first page is fetched, has
\* been read by the discoverer and no page has been fetched yet.
IndexRead == pc \in {"loop", "pref_loop"} /\ ~PageFetch

\* get_district_codes returns a list without repetition in ascending order,
\* never empty, and FALLBACK_CODES when the fetch of the index page gave ""
\* or the page has no link of the form /koho/Xnn.html.
AsahiDiscovererFallsBack ==
    (script = "asahi" /\ IndexRead) =>
        /\ district_codes # <<>>
        /\ \A i, j \in 1..Len(district_codes) :
              i < j => str_less(district_codes[i], district_codes[j])
        /\ (~html.nonempty \/ LinkedCodes(html) = {}) =>
              district_codes = FALLBACK_CODES

\* C3: the discoverer of each script returns a list that is never empty;
\* when the index page could not be fetched or holds no matching link it
\* returns the hardcoded enumeration.
DiscoverersNeverEmpty ==
    /\ AsahiDiscovererFallsBack
    /\ (script = "senkyo" /\ IndexRead) => pref_paths \o hirei_paths # <<>>

\* The number of pages the discoverer returned.
PageCount ==
    IF script = "asahi" THEN Len(district_codes)
    ELSE Len(pref_paths) + Len(hirei_paths)

\* The file is opened at most once, after the last page has been fetched and
\* parsed, and only with records to write.
CsvWrittenAtTheEnd ==
    /\ csv_opens <= 1
    /\ csv_opens = 1 =>
          /\ pc = "done"
          /\ Len(parsed) = PageCount
          /\ Len(fetched) = PageCount
          /\ all_rows # <<>>
          /\ report = "saved"
    /\ (/\ pc = "done"
        /\ \A i \in 1..Len(fetched) : fetched[i] = EmptyHtml) =>
          /\ csv_opens = 0
          /\ report = "no data"

\* A run that main ends by returning writes the file exactly when it has
\* records; a run ended by an exception does not write it.
CsvWrittenWhenMainReturns ==
    /\ CsvWrittenAtTheEnd
    /\ pc = "done" => (csv_opens = 1 <=> all_rows # <<>>)
    /\ pc = "crashed" => csv_opens = 0

\* C4: in every run of main the file is opened at most once, only after the
\* last page has been fetched and parsed, and, the run being over, if and
\* only if the list of records is not empty; with every page empty there is
\* no file and the run reports no data.
CsvWrittenIffRecords ==
    /\ CsvWrittenAtTheEnd
    /\ pc \in {"done", "crashed"} => (csv_opens = 1 <=> all_rows # <<>>)

\* The table unify_party of the running function looks the name up in.
AliasesOf(f) == IF f = "unify_party_asahi" THEN aliases_asahi ELSE aliases_senkyo

Keys(aliases) == {p[1] : p \in aliases}

UnifyApplied ==
    /\ fn \in {"unify_party_asahi", "unify_party_senkyo"}
    /\ stage \in {"once", "twice"}

\* C5: unify_party is deterministic and idempotent in both scripts: each
\* table gives a key one label, a label that is itself a key is mapped to
\* itself, a name that is no key is returned unchanged, and unify_party
\* applied to its own result returns that result.
UnifyPartyIdempotent ==
    /\ \A aliases \in {aliases_asahi, aliases_senkyo} :
          \A p, q \in aliases :
              /\ p[1] = q[1] => p[2] = q[2]
              /\ p[2] = q[1] => q[2] = p[2]
    /\ UnifyApplied =>
          /\ arg \notin Keys(AliasesOf(fn)) => out[1] = arg
          /\ arg \in Keys(AliasesOf(fn)) => <<arg, out[1]>> \in AliasesOf(fn)
    /\ (UnifyApplied /\ stage = "twice") => out[2] = out[1]

\* 自民党 is a key of the asahi table: it is mapped to 自民, and 自民 to
\* itself.
UnifyPartyIdempotentWitness ==
    /\ fn = "unify_party_asahi"
    /\ stage = "twice"
    /\ arg = Jiminto
    /\ out = <<Jimin, Jimin>>

AsahiParsed == fn = "parse_candidates_asahi" /\ stage = "done"

\* The page has list items, each with this text and under no party heading.
ItemsAre(text) ==
    /\ AsahiParsed
    /\ out.found.tags # <<>>
    /\ \A i \in 1..Len(out.found.tags) :
          out.found.tags[i] = [text |-> text, container_party |-> <<>>]

\* Each item gave the record of 山田太郎, ５２, with the party of 自.
YamadaRecords ==
    /\ Len(out.rows) = Len(out.found.tags)
    /\ \A i \in 1..Len(out.rows) :
          /\ out.rows[i].title = Yamada
          /\ out.rows[i].age = Age52Wide
          /\ out.rows[i].detail = Age52Wide \o Sai
          /\ out.rows[i].seitou = unify_party_asahi(Ji)
          /\ out.rows[i].seitou = Jimin

\* C6: a list item with the text "●山田太郎 ５２ 自現①", its name, age and
\* party+status token separated by whitespace, produces one record with the
\* name 山田太郎, the age ５２ and the party of the abbreviation 自; the
\* token 自現① yields the abbreviation 自; the text "●山田太郎５２自現①"
\* without whitespace has no purely numeric token and produces no record.
SpacedEntryGivesRecord ==
    /\ ItemsAre(EntrySpaced) => YamadaRecords
    /\ ItemsAre(EntryUnspaced) => out.rows = <<>>
    /\ PartyCode(JiGenMaru1) = Ji

\* A page of the new structure whose one item is "●山田太郎 ５２ 自現①".
SpacedEntryGivesRecordWitness ==
    /\ ItemsAre(EntrySpaced)
    /\ out.found.strategy = "new"
    /\ Len(out.found.tags) = 1
    /\ Len(out.rows) = 1

\* C6 as the claim words it: the item "●山田太郎５２自現①" produces one
\* record with the name 山田太郎, the age ５２ and the party of 自.
UnspacedEntryGivesRecord ==
    /\ ItemsAre(EntryUnspaced) => YamadaRecords
    /\ PartyCode(JiGenMaru1) = Ji

\* The tokens of an entry: its text without the leading bullets, split on
\* whitespace.
Tokens(text) == re_split_ws(lstrip(text, BulletChars))

NumericTokens(text) ==
    {i \in 1..Len(Tokens(text)) : isdigit(Tokens(text)[i])}

\* An entry is well formed when it has a purely numeric token that is not
\* its last token.
WellFormed(text) ==
    \E i \in NumericTokens(text) : i < Len(Tokens(text))

\* C7: the records of a page are the order-preserving image of its
\* well-formed entries: there is one record for each well-formed entry, in
\* the order of the entries; its age is the entry's first purely numeric
\* token and its name the concatenation of the tokens before it; an entry
\* that is not well formed gives no record and takes none away.
RecordsAreWellFormedEntries ==
    AsahiParsed =>
        LET good == SelectSeq(out.found.tags, LAMBDA t : WellFormed(t.text))
        IN  /\ Len(out.rows) = Len(good)
            /\ \A i \in 1..Len(good) :
                  LET toks == Tokens(good[i].text)
                      a    == Minimum(NumericTokens(good[i].text))
                  IN  /\ out.rows[i].age = toks[a]
                      /\ out.rows[i].title = join(SubSeq(toks, 1, a - 1))

\* A page whose first entry has its numeric token last and whose second
\* entry is well formed: the one record is that of the second entry.
RecordsAreWellFormedEntriesWitness ==
    /\ AsahiParsed
    /\ Len(out.found.tags) = 2
    /\ out.found.tags[1].text = EntryAgeLast
    /\ out.found.tags[2].text = EntryTwoNames
    /\ Len(out.rows) = 1
    /\ out.rows[1].age = Age52
    /\ out.rows[1].title = <<"u5C71", "u7530", "u592A", "u90CE">>

\* The number of records of the pages together.
RECURSIVE CountRows(_)
CountRows(pages) ==
    IF pages = <<>> THEN 0 ELSE Len(Head(pages)) + CountRows(Tail(pages))

\* The number of pages whose fetch has begun: the place of the current page
\* in the discoverer's order, in a loop body; the pages done, at a loop head.
PagesBegun ==
    CASE pc \in {"page", "pref_page"} -> idx
      [] pc \in {"loop", "pref_loop"} -> idx - 1
      [] pc = "hirei_page" -> Len(pref_paths) + idx
      [] pc = "hirei_loop" -> Len(pref_paths) + idx - 1
      [] OTHER -> Len(parsed)

\* What parse_candidates returns for the k-th page of the run.
PageResult(k) ==
    IF script = "asahi"
    THEN parse_candidates_asahi(fetched[k], district_codes[k])
    ELSE IF k <= Len(pref_paths)
    THEN parse_candidates_senkyo(
             fetched[k],
             PrefSenkyoku(extract_pref_name(fetched[k]).name, pref_paths[k]),
             FALSE).rows
    ELSE parse_candidates_senkyo(
             fetched[k], PartyName(hirei_paths[k - Len(pref_paths)]),
             TRUE).rows

\* C8: main processes the pages one after another in the discoverer's order:
\* while page k is fetched or parsed, exactly the k - 1 pages before it have
\* been fetched, parsed and appended; the list of records is the
\* concatenation, in page order, of the results of the pages, its length the
\* sum of their lengths; and the rows written to the file are this list.
RowsAreConcatenation ==
    /\ Len(parsed) = Len(fetched)
    /\ pc \in {"page", "pref_page", "hirei_page"} =>
          Len(parsed) = PagesBegun - 1
    /\ pc \in {"loop", "pref_loop", "hirei_loop"} => Len(parsed) = PagesBegun
    /\ \A k \in 1..Len(parsed) : parsed[k] = PageResult(k)
    /\ all_rows = Flatten(parsed)
    /\ Len(all_rows) = CountRows(parsed)
    /\ csv_opens > 0 => csv_rows = all_rows

\* A run of the asahi script over two pages with different records, which
\* are written to the file.
RowsAreConcatenationWitness ==
    /\ script = "asahi"
    /\ pc = "done"
    /\ csv_opens = 1
    /\ Len(parsed) = 2
    /\ parsed[1] # <<>>
    /\ parsed[2] # <<>>
    /\ parsed[1] # parsed[2]
    /\ csv_rows = parsed[1] \o parsed[2]

\* The texts of the collected tags.
TagTexts == [i \in 1..Len(out.found.tags) |-> out.found.tags[i].text]

\* C9: the strategies are tried in a fixed order.  With a new-structure
\* container on the page the entries are the list items of the containers
\* and nothing else, whatever stands after the marker heading and even if
\* they give no record; without one, and with the marker heading, they are
\* the elements after the heading up to the first that is blank, starts
\* with ＊ or holds 顔ぶれの見方; without either the page gives no record.
StrategiesInOrder ==
    AsahiParsed =>
        LET soup == arg.html
        IN  /\ out.found.strategy = "old" <=>
                  (soup.containers = <<>> /\ soup.h2)
            /\ out.found.strategy = "new" <=> soup.containers # <<>>
            /\ soup.containers # <<>> =>
                  TagTexts = Flatten([i \in 1..Len(soup.containers) |->
                                         soup.containers[i].lis])
            /\ (soup.containers = <<>> /\ soup.h2) =>
                  /\ Len(TagTexts) <= Len(soup.next)
                  /\ TagTexts = SubSeq(soup.next, 1, Len(TagTexts))
                  /\ \A i \in 1..Len(TagTexts) : ~IsTerminator(TagTexts[i])
                  /\ Len(TagTexts) < Len(soup.next) =>
                        IsTerminator(soup.next[Len(TagTexts) + 1])
            /\ (soup.containers = <<>> /\ ~soup.h2) =>
                  /\ out.found.strategy = "none"
                  /\ out.rows = <<>>
            /\ Len(out.rows) <= Len(TagTexts)

\* A page with a container whose one item gives no record, and with the
\* marker heading followed by a well-formed item: the page gives no record.
StrategiesInOrderWitness ==
    /\ AsahiParsed
    /\ Len(arg.html.containers) = 1
    /\ arg.html.containers[1].lis = <<EntryAgeLast>>
    /\ arg.html.h2
    /\ arg.html.next = <<EntrySpaced>>
    /\ out.found.strategy = "new"
    /\ out.rows = <<>>

\* Whether the call of parse_candidates is one for proportional candidates:
\* the flag of the senkyo script; in the asahi script a district that holds
\* 比例 or a code that starts with C.
CallIsProportional ==
    IF fn = "parse_candidates_senkyo" THEN arg.is_proportional
    ELSE \/ contains(out.district, Hirei)
         \/ arg.default_district[1] = "C"

\* C10: every record of parse_candidates, in either script, has an empty
\* prefecture and the district 比例 when it is proportional, and else a
\* prefecture equal to its district; its six annotation fields are empty.
RecordFieldsConsistent ==
    (fn \in {"parse_candidates_asahi", "parse_candidates_senkyo"}
        /\ stage = "done") =>
        \A i \in 1..Len(out.rows) :
            LET r == out.rows[i]
            IN  /\ IF CallIsProportional
                   THEN r.todoufuken = <<>> /\ r.senkyoku = Hirei
                   ELSE r.todoufuken = r.senkyoku
                /\ fn = "parse_candidates_asahi" =>
                      (~CallIsProportional => r.senkyoku = out.district)
                /\ fn = "parse_candidates_senkyo" =>
                      (~CallIsProportional => r.senkyoku = arg.senkyoku)
                /\ r.tubohantei = <<>> /\ r.tubonaiyou = <<>>
                /\ r.tuboURL = <<>> /\ r.uraganehantei = <<>>
                /\ r.uraganenaiyou = <<>> /\ r.uraganeURL = <<>>

\* A page fetched under the code B13 whose heading names 比例区: its record
\* is proportional.
RecordFieldsConsistentWitness ==
    /\ AsahiParsed
    /\ arg.default_district = B13
    /\ contains(out.district, Hirei)
    /\ out.rows # <<>>
    /\ out.rows[1].todoufuken = <<>>
    /\ out.rows[1].senkyoku = Hirei

=============================================================================
